---- MODULE Spec2Model ----
(***************************************************************************)
(* SpecAI command-line tool (src/src/index.ts): the phase-gated document   *)
(* workflow.  The project on disk is two directories and three files; each *)
(* command invocation is a short-lived process that reads them, performs   *)
(* its writes and exits.  src/src/index.ts holds two drafts of the CLI     *)
(* that differ in handleConstitution and callQwen: the "menu" draft (lines *)
(* 1-442) and the "simple" draft (lines 444-806); init, status, approve    *)
(* and unlock are the same code in both.                                   *)
(*                                                                         *)
(* Text is a sequence of one-character strings, so that trim(),            *)
(* toLowerCase(), parseInt() and string concatenation are computed as the  *)
(* code computes them.                                                     *)
(***************************************************************************)
EXTENDS Integers, Sequences, FiniteSets, TLC

(* Bounds of the model. *)
MaxAppends == 2
MaxInputDocLen == 3

Procs == {"p1", "p2"}

Main == "p1"

VARIABLES
    targetDir,          \* the project root directory exists
    gitDir,             \* <root>/.git exists
    specaiDir,          \* <root>/specai exists
    dotSpecaiDir,       \* <root>/.specai exists
    configFile,         \* <root>/.specai/config.json
    stateFile,          \* <root>/specai/state.json
    constitutionFile,   \* <root>/specai/constitution.md
    proc,               \* per process: the invocation it runs or ran last
    appends,            \* confirmed document writes so far (bounds the model)
    lockHistory         \* history: the last approve/unlock that wrote the state
                        \* record, and whether an init wrote it since

files == <<targetDir, gitDir, specaiDir, dotSpecaiDir, configFile, stateFile,
           constitutionFile>>

vars == <<targetDir, gitDir, specaiDir, dotSpecaiDir, configFile, stateFile,
          constitutionFile, proc, appends, lockHistory>>

-----------------------------------------------------------------------------
(* Strings. *)

WhiteSpace == {" ", "\t", "\n", "\r"}

RECURSIVE TrimStart(_)
TrimStart(s) ==
    IF s # <<>> /\ Head(s) \in WhiteSpace THEN TrimStart(Tail(s)) ELSE s

RECURSIVE TrimEnd(_)
TrimEnd(s) ==
    IF s # <<>> /\ s[Len(s)] \in WhiteSpace
    THEN TrimEnd(SubSeq(s, 1, Len(s) - 1))
    ELSE s

(* String.prototype.trim(): strips white space from both ends. *)
Trim(s) == TrimEnd(TrimStart(s))

LowerChar(c) ==
    CASE c = "Y" -> "y"
      [] c = "N" -> "n"
      [] c = "E" -> "e"
      [] c = "S" -> "s"
      [] OTHER -> c

(* String.prototype.toLowerCase() on the letters the inputs use. *)
ToLowerCase(s) == [i \in 1..Len(s) |-> LowerChar(s[i])]

Digits == {"0", "1", "2", "3", "4", "5", "6", "7", "8", "9"}

DigitValue(c) ==
    CASE c = "0" -> 0 [] c = "1" -> 1 [] c = "2" -> 2 [] c = "3" -> 3
      [] c = "4" -> 4 [] c = "5" -> 5 [] c = "6" -> 6 [] c = "7" -> 7
      [] c = "8" -> 8 [] c = "9" -> 9

RECURSIVE DigitPrefix(_)
DigitPrefix(s) ==
    IF s # <<>> /\ Head(s) \in Digits
    THEN <<Head(s)>> \o DigitPrefix(Tail(s))
    ELSE <<>>

RECURSIVE DecimalValue(_)
DecimalValue(ds) ==
    IF ds = <<>> THEN 0
    ELSE 10 * DecimalValue(SubSeq(ds, 1, Len(ds) - 1)) + DigitValue(ds[Len(ds)])

NaN == [nan |-> TRUE, value |-> 0]

(* parseInt(s, 10): skips leading white space, takes an optional sign and  *)
(* the longest run of digits; NaN when there is no digit.                  *)
ParseInt(s) ==
    LET t == TrimStart(s)
        neg == t # <<>> /\ Head(t) = "-"
        signed == t # <<>> /\ Head(t) \in {"-", "+"}
        ds == DigitPrefix(IF signed THEN Tail(t) ELSE t)
    IN  IF ds = <<>> THEN NaN
        ELSE [nan |-> FALSE,
              value |-> IF neg THEN 0 - DecimalValue(ds) ELSE DecimalValue(ds)]

-----------------------------------------------------------------------------
(* What init writes. *)

ScaffoldLine1 ==
    <<"#", " ", "C", "o", "n", "s", "t", "i", "t", "u", "t", "i", "o", "n",
    "\n">>
ScaffoldLine2 ==
    <<"\n">>
ScaffoldLine3 ==
    <<"T", "h", "i", "s", " ", "d", "o", "c", "u", "m", "e", "n", "t", " ", "d",
    "e", "f", "i", "n", "e", "s", " ", "t", "h", "e", " ", "g", "o", "v", "e",
    "r", "n", "i", "n", "g", " ", "a", "s", "s", "u", "m", "p", "t", "i", "o",
    "n", "s", ",", " ", "c", "o", "n", "s", "t", "r", "a", "i", "n", "t", "s",
    ",", " ", "a", "n", "d", " ", "w", "o", "r", "l", "d", "v", "i", "e", "w",
    "\n">>
ScaffoldLine4 ==
    <<"f", "o", "r", " ", "t", "h", "e", " ", "p", "r", "o", "j", "e", "c", "t",
    ".", "\n">>
ScaffoldLine5 ==
    <<"\n">>
ScaffoldLine6 ==
    <<"I", "t", " ", "i", "s", " ", "e", "x", "p", "e", "c", "t", "e", "d", " ",
    "t", "o", " ", "e", "v", "o", "l", "v", "e", " ", "b", "e", "f", "o", "r",
    "e", " ", "b", "e", "i", "n", "g", " ", "a", "p", "p", "r", "o", "v", "e",
    "d", " ", "a", "n", "d", " ", "l", "o", "c", "k", "e", "d", ".", "\n">>

(* The constitution scaffold of handleInit. *)
Scaffold ==
    ScaffoldLine1 \o ScaffoldLine2 \o ScaffoldLine3 \o ScaffoldLine4
        \o ScaffoldLine5 \o ScaffoldLine6

PlannerModel == "qwen2.5:7b"

CoderModel == "deepseek-coder:6.7b"

InitialConfig(name, description) ==
    [project |-> [name |-> name, description |-> description],
     models |-> [planner |-> PlannerModel, coder |-> CoderModel]]

(* Faulty variant: the first phase starts approved. *)
InitialState_Approved ==
    [phase |-> "constitution",
     approved |-> [constitution |-> TRUE, spec |-> FALSE,
                   plan |-> FALSE, tasks |-> FALSE]]

InitialState ==
    [phase |-> "constitution",
     approved |-> [constitution |-> FALSE, spec |-> FALSE,
                   plan |-> FALSE, tasks |-> FALSE]]

(* JSON.stringify(state, null, 2): the members in insertion order. *)
StringifyState(state) ==
    <<<<"phase", state.phase>>,
      <<"approved", <<<<"constitution", state.approved.constitution>>,
                      <<"spec", state.approved.spec>>,
                      <<"plan", state.approved.plan>>,
                      <<"tasks", state.approved.tasks>>>>>>>>

(* JSON.parse of a state record. *)
ParseState(text) ==
    [phase |-> text[1][2],
     approved |-> [constitution |-> text[2][2][1][2], spec |-> text[2][2][2][2],
                   plan |-> text[2][2][3][2], tasks |-> text[2][2][4][2]]]

StringifyConfig(config) ==
    <<<<"project", <<<<"name", config.project.name>>,
                     <<"description", config.project.description>>>>>>,
      <<"models", <<<<"planner", config.models.planner>>,
                    <<"coder", config.models.coder>>>>>>>>

ParseConfig(text) ==
    [project |-> [name |-> text[1][2][1][2], description |-> text[1][2][2][2]],
     models |-> [planner |-> text[2][2][1][2], coder |-> text[2][2][2][2]]]

(* A file that does not exist. *)
NoFile == [exists |-> FALSE, content |-> <<>>]

File(content) == [exists |-> TRUE, content |-> content]

(* loadState: reads and parses specai/state.json. *)
loadState == ParseState(stateFile.content)

(* loadConfig: reads and parses .specai/config.json. *)
loadConfig == ParseConfig(configFile.content)

-----------------------------------------------------------------------------
(* Console output, by the line printed.  Where the two drafts word a line  *)
(* differently (the unlock hint, "Applied." / "Change applied.") one name  *)
(* stands for both.                                                        *)

MsgNoTarget == "Please specify a target directory"
MsgCreatedFolder == "Created project folder"
MsgAlreadyInitialized == "SpecAI already initialized here."
MsgUseForce == "Use --force to overwrite."
MsgGitInitialized == "Git repository initialized."
MsgGitFailed == "Git initialization failed."
MsgInitialized == "SpecAI project initialized."
MsgStatusInitialized == "SpecAI is initialized in this directory."
MsgStatusNotInitialized == "SpecAI not initialized in this directory."
MsgNotFound == "No SpecAI project found in target directory."
MsgRunInit == "Run specai init first."
MsgLocked == "Constitution is locked."
MsgUnlockHint == "Use specai unlock constitution to modify it."
MsgApplied == "Applied."
MsgDiscarded == "Discarded."
MsgNotesAppended == "Notes appended."
MsgRerun == "Answer these by re-running specai constitution"
MsgExiting == "Exiting without changes."
MsgApproved == "Constitution approved and locked."
MsgUnlocked == "Constitution unlocked."
MsgUnknownApprove == "Unknown approve target."
MsgUnknownUnlock == "Unknown unlock target."
MsgUnknownCommand == "Unknown command"
MsgUsage == "Usage:"
(* An exception nothing catches: the runtime prints it and exits with 1. *)
MsgUncaught == "Uncaught exception"

-----------------------------------------------------------------------------
(* Inputs. *)

(* data.response of the generation service, before callQwen trims it. *)
GenResponses == {<<>>, <<"r">>, <<"\n", "r", " ">>, <<"r", "\n", "s">>}

(* Lines the operator types at a free-text prompt. *)
TextLines == {<<>>, <<"n">>, <<" ", "n", " ">>}

(* Lines the operator types at the prompts of init. *)
ProjectLines == {<<"p">>, <<" ", "p">>}

(* Lines the operator types at a y/n prompt. *)
ConfirmLines ==
    {<<"y">>, <<"Y">>, <<"n">>, <<>>, <<" ", "y">>, <<"y", "e", "s">>}

(* Lines the operator types at the menu. *)
ChoiceLines ==
    {<<"1">>, <<"2">>, <<"3">>, <<"4">>, <<"5">>, <<"0">>, <<"x">>, <<>>,
     <<" ", "2">>, <<"1", "x">>, <<"-", "1">>}

(* path.basename(targetDir) *)
BaseName == <<"p">>

-----------------------------------------------------------------------------
(* A process: one invocation of the CLI. *)

Snapshot ==
    [state |-> stateFile, doc |-> constitutionFile, config |-> configFile,
     specaiDir |-> specaiDir, dotSpecaiDir |-> dotSpecaiDir]

NoConfirm == [asked |-> FALSE, answered |-> FALSE, line |-> <<>>]

(* The menu selection: not read yet. *)
NoChoice == [answered |-> FALSE, line |-> <<>>]

(* History: the command the invocation before this one ran, as far as the  *)
(* properties tell commands apart.                                         *)
PrevCmd(p) ==
    IF proc[p].cmd \in {"approve constitution", "unlock constitution"}
    THEN proc[p].cmd
    ELSE "other"

NewProc(p, cmd, variant, force) ==
    [cmd |-> cmd, prevCmd |-> PrevCmd(p), variant |-> variant,
     force |-> force, noGit |-> FALSE,
     pc |-> "start",
     currentText |-> <<>>, text |-> <<>>, name |-> <<>>,
     genCalls |-> 0, prompts |-> 0,
     docWrites |-> 0, stateWrites |-> 0, configWrites |-> 0,
     confirm |-> NoConfirm, choice |-> NoChoice,
     msgs |-> {}, exit |-> 0, killed |-> FALSE,
     genFailed |-> FALSE, inputClosed |-> FALSE,
     pre |-> Snapshot, lockHistoryAtStart |-> lockHistory]

(* process.exit(code), or the end of main. *)
Exit(r, msgs, code) ==
    [r EXCEPT !.pc = "done", !.msgs = @ \cup msgs, !.exit = code]

Idle(p) == proc[p].pc = "done"

GenPcs == {"summary", "questions", "proposal", "gen"}

PromptPcs ==
    {"choose", "describe", "notes", "confirm", "confirmNotes",
     "askName", "askDescription"}

-----------------------------------------------------------------------------
(* init *)

(* Faulty variant: the guard asks for both directories. *)
AlreadyInitialized_NeedsBoth(force) == specaiDir /\ dotSpecaiDir /\ ~force

(* The guard of handleInit against an existing setup. *)
AlreadyInitialized(force) == (specaiDir \/ dotSpecaiDir) /\ ~force

(* writeFileSafe: throws when the file exists and force is not set. *)
WriteRefused(file, force) == file.exists /\ ~force

(* handleInit up to its first prompt. *)
InitStart(p, hasPath, force, noGit) ==
    /\ Idle(p)
    /\ LET r == [NewProc(p, "init", "-", force) EXCEPT !.noGit = noGit]
       IN  IF ~hasPath
           THEN /\ proc' = [proc EXCEPT ![p] = Exit(r, {MsgNoTarget}, 1)]
                /\ UNCHANGED targetDir
           ELSE /\ targetDir' = TRUE
                /\ LET r1 == IF targetDir THEN r
                             ELSE [r EXCEPT !.msgs = {MsgCreatedFolder},
                                            !.name = BaseName]
                   IN  proc' = [proc EXCEPT ![p] =
                           IF AlreadyInitialized(force)
                           THEN Exit(r1, {MsgAlreadyInitialized,
                                          MsgUseForce}, 1)
                           ELSE [r1 EXCEPT
                                   !.pc = IF targetDir THEN "askName"
                                          ELSE "askDescription",
                                   !.prompts = 1]]
    /\ UNCHANGED <<gitDir, specaiDir, dotSpecaiDir, configFile, stateFile,
                   constitutionFile, appends, lockHistory>>

(* The operator answers "Project name: ". *)
InitAnswerName(p, line) ==
    /\ proc[p].pc = "askName"
    /\ proc' = [proc EXCEPT ![p] =
            [@ EXCEPT !.name = Trim(line), !.pc = "askDescription",
                      !.prompts = @ + 1]]
    /\ UNCHANGED <<files, appends, lockHistory>>

(* The operator answers the description prompt: handleInit creates the     *)
(* directories, writes config.json, constitution.md and state.json in that *)
(* order, and runs git init.                                               *)
InitAnswerDescription(p, line, gitOk) ==
    /\ proc[p].pc = "askDescription"
    /\ LET r == proc[p]
           force == r.force
           config == InitialConfig(r.name, Trim(line))
           okConfig == ~WriteRefused(configFile, force)
           okDoc == okConfig /\ ~WriteRefused(constitutionFile, force)
           okState == okDoc /\ ~WriteRefused(stateFile, force)
           git == okState /\ ~r.noGit /\ ~gitDir
       IN  /\ specaiDir' = TRUE
           /\ dotSpecaiDir' = TRUE
           /\ configFile' =
                IF okConfig THEN File(StringifyConfig(config)) ELSE configFile
           /\ constitutionFile' =
                IF okDoc THEN File(Scaffold) ELSE constitutionFile
           /\ stateFile' =
                IF okState THEN File(StringifyState(InitialState))
                ELSE stateFile
           /\ lockHistory' =
                IF okState THEN [lockHistory EXCEPT !.initSince = TRUE]
                ELSE lockHistory
           /\ gitDir' = (gitDir \/ (git /\ gitOk))
           /\ proc' = [proc EXCEPT ![p] =
                LET w == [r EXCEPT
                            !.configWrites = IF okConfig THEN 1 ELSE 0,
                            !.docWrites = IF okDoc THEN 1 ELSE 0,
                            !.stateWrites = IF okState THEN 1 ELSE 0]
                IN  IF ~okState THEN Exit(w, {MsgUncaught}, 1)
                    ELSE Exit(w,
                              {MsgInitialized}
                                \cup (IF git /\ gitOk THEN {MsgGitInitialized}
                                      ELSE {})
                                \cup (IF git /\ ~gitOk THEN {MsgGitFailed}
                                      ELSE {}),
                              0)]
    /\ UNCHANGED <<targetDir, appends>>

-----------------------------------------------------------------------------
(* status *)

(* Faulty variant: one directory is enough. *)
Initialized_Either == specaiDir \/ dotSpecaiDir

(* handleStatus, run in the project directory. *)
Initialized == specaiDir /\ dotSpecaiDir

Status(p) ==
    /\ Idle(p)
    /\ proc' = [proc EXCEPT ![p] =
            Exit(NewProc(p, "status", "-", FALSE),
                 IF Initialized THEN {MsgStatusInitialized}
                 ELSE {MsgStatusNotInitialized},
                 0)]
    /\ UNCHANGED <<files, appends, lockHistory>>

-----------------------------------------------------------------------------
(* approve constitution, unlock constitution *)

(* Faulty variant: approve also moves the phase on. *)
Approved_AdvancesPhase(state) ==
    [state EXCEPT !.approved.constitution = TRUE,
                  !.phase = IF @ = "constitution" THEN "spec" ELSE "plan"]

(* Faulty variant: approve flips the flag instead of setting it. *)
Approved_Toggles(state) ==
    [state EXCEPT !.approved.constitution = ~@]

(* state.approved.constitution = true *)
(* Faulty variant: approving the constitution approves the spec too. *)
Approved_ApprovesSpecToo(state) ==
    [state EXCEPT !.approved.constitution = TRUE, !.approved.spec = TRUE]

(* Faulty variant: the record is rebuilt from the defaults. *)
Approved_FromDefaults(state) ==
    [InitialState EXCEPT !.approved.constitution = TRUE]

Approved(state) == [state EXCEPT !.approved.constitution = TRUE]

(* Faulty variant: unlock saves the record as loaded. *)
Unlocked_KeepsFlag(state) == state

(* state.approved.constitution = false *)
Unlocked(state) == [state EXCEPT !.approved.constitution = FALSE]

(* saveState: overwrites specai/state.json with the whole record. *)
saveState(state) == File(StringifyState(state))

(* Faulty variant: approving an already approved constitution is an error. *)
ApproveConstitution_RefusesWhenLocked(p) ==
    /\ Idle(p)
    /\ LET r == NewProc(p, "approve constitution", "-", FALSE)
       IN  IF ~stateFile.exists \/ loadState.approved.constitution
           THEN /\ proc' = [proc EXCEPT ![p] =
                       Exit(r, {MsgNotFound, MsgRunInit}, 1)]
                /\ UNCHANGED <<stateFile, lockHistory>>
           ELSE /\ stateFile' = saveState(Approved(loadState))
                /\ lockHistory' = [cmd |-> "approve", initSince |-> FALSE]
                /\ proc' = [proc EXCEPT ![p] =
                       Exit([r EXCEPT !.stateWrites = 1], {MsgApproved}, 0)]
    /\ UNCHANGED <<targetDir, gitDir, specaiDir, dotSpecaiDir, configFile,
                   constitutionFile, appends>>

(* handleApproveConstitution *)
ApproveConstitution(p) ==
    /\ Idle(p)
    /\ LET r == NewProc(p, "approve constitution", "-", FALSE)
       IN  IF ~stateFile.exists
           THEN /\ proc' = [proc EXCEPT ![p] =
                       Exit(r, {MsgNotFound, MsgRunInit}, 1)]
                /\ UNCHANGED <<stateFile, lockHistory>>
           ELSE /\ stateFile' = saveState(Approved(loadState))
                /\ lockHistory' = [cmd |-> "approve", initSince |-> FALSE]
                /\ proc' = [proc EXCEPT ![p] =
                       Exit([r EXCEPT !.stateWrites = 1], {MsgApproved}, 0)]
    /\ UNCHANGED <<targetDir, gitDir, specaiDir, dotSpecaiDir, configFile,
                   constitutionFile, appends>>

(* Faulty variant: unlock creates a missing state record. *)
UnlockConstitution_CreatesRecord(p) ==
    /\ Idle(p)
    /\ LET r == NewProc(p, "unlock constitution", "-", FALSE)
       IN  /\ stateFile' =
                 IF stateFile.exists THEN saveState(Unlocked(loadState))
                 ELSE saveState(InitialState)
           /\ lockHistory' = [cmd |-> "unlock", initSince |-> FALSE]
           /\ proc' = [proc EXCEPT ![p] =
                  Exit([r EXCEPT !.stateWrites = 1], {MsgUnlocked}, 0)]
    /\ UNCHANGED <<targetDir, gitDir, specaiDir, dotSpecaiDir, configFile,
                   constitutionFile, appends>>

(* handleUnlockConstitution *)
UnlockConstitution(p) ==
    /\ Idle(p)
    /\ LET r == NewProc(p, "unlock constitution", "-", FALSE)
       IN  IF ~stateFile.exists
           THEN /\ proc' = [proc EXCEPT ![p] =
                       Exit(r, {MsgNotFound, MsgRunInit}, 1)]
                /\ UNCHANGED <<stateFile, lockHistory>>
           ELSE /\ stateFile' = saveState(Unlocked(loadState))
                /\ lockHistory' = [cmd |-> "unlock", initSince |-> FALSE]
                /\ proc' = [proc EXCEPT ![p] =
                       Exit([r EXCEPT !.stateWrites = 1], {MsgUnlocked}, 0)]
    /\ UNCHANGED <<targetDir, gitDir, specaiDir, dotSpecaiDir, configFile,
                   constitutionFile, appends>>

-----------------------------------------------------------------------------
(* constitution: the edit workflow *)

(* Faulty variant: the gate reads the flag of another phase. *)
LockGate_ReadsSpecFlag(state) == state.approved.spec

(* Faulty variant: the gate is inverted. *)
LockGate_Negated(state) == ~state.approved.constitution

(* The lock gate: if (state.approved.constitution) *)
LockGate(state) == state.approved.constitution

(* callQwen returns data.response.trim(). *)
callQwen(response) == Trim(response)

(* Faulty variant: the parsed number is used as the index. *)
choose_NoOffset(line) ==
    LET idx == ParseInt(Trim(line))
    IN  IF idx.nan THEN 0 - 1 ELSE idx.value

(* choose: parseInt(answer, 10), NaN -> -1, else idx - 1; ask has trimmed  *)
(* the answer.                                                             *)
choose(line) ==
    LET idx == ParseInt(Trim(line))
    IN  IF idx.nan THEN 0 - 1 ELSE idx.value - 1

(* Faulty variant: every answer but n confirms. *)
Confirmed_AnythingButNo(variant, line) ==
    ToLowerCase(Trim(line)) # <<"n">>

(* The test of the y/n answer.  The menu draft reads the line through ask, *)
(* which trims it; the simple draft compares the raw line.                 *)
Confirmed(variant, line) ==
    IF variant = "menu"
    THEN ToLowerCase(Trim(line)) = <<"y">>
    ELSE ToLowerCase(line) = <<"y">>

(* The document written on confirmation:                                   *)
(* currentText.trim() + "\n\n" + text + "\n"                               *)
AppendedDocument(currentText, text) ==
    Trim(currentText) \o <<"\n", "\n">> \o text \o <<"\n">>

(* handleConstitution up to its first call of the generation service. *)
ConstitutionStart(p, variant) ==
    /\ Idle(p)
    /\ appends < MaxAppends
    /\ LET r == NewProc(p, "constitution", variant, FALSE)
       IN  proc' = [proc EXCEPT ![p] =
               IF ~stateFile.exists
               THEN Exit(r, IF variant = "menu" THEN {MsgNotFound}
                            ELSE {MsgNotFound, MsgRunInit}, 1)
               ELSE IF LockGate(loadState)
               THEN Exit(r, {MsgLocked, MsgUnlockHint}, 1)
               ELSE IF (variant = "menu" /\ ~configFile.exists)
                         \/ ~constitutionFile.exists
               THEN Exit(r, {MsgUncaught}, 1)
               ELSE [r EXCEPT !.pc = IF variant = "menu" THEN "summary"
                                     ELSE "gen",
                              !.currentText = constitutionFile.content,
                              !.genCalls = 1]]
    /\ UNCHANGED <<files, appends, lockHistory>>

(* The generation service answers with a completion. *)
GenerationSucceeds(p, response) ==
    /\ proc[p].pc \in GenPcs
    /\ LET r == proc[p]
       IN  proc' = [proc EXCEPT ![p] =
               CASE r.pc = "summary" ->
                        [r EXCEPT !.pc = "choose", !.prompts = @ + 1]
                 [] r.pc = "questions" -> Exit(r, {MsgRerun}, 0)
                 [] r.pc \in {"proposal", "gen"} ->
                        [r EXCEPT !.text = callQwen(response),
                                  !.pc = "confirm",
                                  !.prompts = @ + 1,
                                  !.confirm =
                                      [NoConfirm EXCEPT !.asked = TRUE]]]
    /\ UNCHANGED <<files, appends, lockHistory>>

(* Faulty variant: a failed call counts as an empty proposal. *)
GenerationFails_ProposesEmpty(p) ==
    /\ proc[p].pc \in GenPcs
    /\ proc' = [proc EXCEPT ![p] =
            [@ EXCEPT !.genFailed = TRUE, !.text = <<>>, !.pc = "confirm",
                      !.prompts = @ + 1,
                      !.confirm = [NoConfirm EXCEPT !.asked = TRUE]]]
    /\ UNCHANGED <<files, appends, lockHistory>>

(* The generation call fails (transport error, non-success response or a   *)
(* payload without a response string): callQwen throws, nothing catches.   *)
GenerationFails(p) ==
    /\ proc[p].pc \in GenPcs
    /\ proc' = [proc EXCEPT ![p] =
            [Exit(@, {MsgUncaught}, 1) EXCEPT !.genFailed = TRUE]]
    /\ UNCHANGED <<files, appends, lockHistory>>

(* Faulty variant: an answer that selects no entry shows the menu again. *)
AnswerChoice_AsksAgain(p, line) ==
    /\ proc[p].pc = "choose"
    /\ LET r == [proc[p] EXCEPT !.choice = [answered |-> TRUE, line |-> line]]
           choice == choose(line)
       IN  proc' = [proc EXCEPT ![p] =
               CASE choice = 0 ->
                        [r EXCEPT !.pc = "describe", !.prompts = @ + 1]
                 [] choice = 1 ->
                        [r EXCEPT !.pc = "questions", !.genCalls = @ + 1]
                 [] choice = 2 ->
                        [r EXCEPT !.pc = "notes", !.prompts = @ + 1]
                 [] choice = 3 -> Exit(r, {MsgExiting}, 0)
                 [] OTHER -> [r EXCEPT !.prompts = @ + 1]]
    /\ UNCHANGED <<files, appends, lockHistory>>

(* The operator answers the menu. *)
AnswerChoice(p, line) ==
    /\ proc[p].pc = "choose"
    /\ LET r == [proc[p] EXCEPT !.choice = [answered |-> TRUE, line |-> line]]
           choice == choose(line)
       IN  proc' = [proc EXCEPT ![p] =
               CASE choice = 0 ->
                        [r EXCEPT !.pc = "describe", !.prompts = @ + 1]
                 [] choice = 1 ->
                        [r EXCEPT !.pc = "questions", !.genCalls = @ + 1]
                 [] choice = 2 ->
                        [r EXCEPT !.pc = "notes", !.prompts = @ + 1]
                 [] choice = 3 -> Exit(r, {MsgExiting}, 0)
                 [] OTHER -> Exit(r, {}, 0)]
    /\ UNCHANGED <<files, appends, lockHistory>>

(* The operator describes the system: the text goes into the prompt of the *)
(* second generation call.                                                 *)
AnswerDescribe(p, line) ==
    /\ proc[p].pc = "describe"
    /\ proc' = [proc EXCEPT ![p] =
            [@ EXCEPT !.pc = "proposal", !.genCalls = @ + 1]]
    /\ UNCHANGED <<files, appends, lockHistory>>

(* The operator enters notes to append. *)
AnswerNotes(p, line) ==
    /\ proc[p].pc = "notes"
    /\ proc' = [proc EXCEPT ![p] =
            [@ EXCEPT !.text = Trim(line), !.pc = "confirmNotes",
                      !.prompts = @ + 1,
                      !.confirm = [NoConfirm EXCEPT !.asked = TRUE]]]
    /\ UNCHANGED <<files, appends, lockHistory>>

(* Faulty variant: accepting the text also approves the phase. *)
AnswerConfirm_ApprovesOnAccept(p, line) ==
    /\ proc[p].pc \in {"confirm", "confirmNotes"}
    /\ LET r == [proc[p] EXCEPT !.confirm.answered = TRUE,
                                !.confirm.line = line]
       IN  IF Confirmed(r.variant, line)
           THEN /\ constitutionFile' =
                       File(AppendedDocument(r.currentText, r.text))
                /\ stateFile' = saveState(Approved(loadState))
                /\ appends' = appends + 1
                /\ proc' = [proc EXCEPT ![p] =
                       Exit([r EXCEPT !.docWrites = @ + 1],
                            IF r.pc = "confirmNotes" THEN {MsgNotesAppended}
                            ELSE {MsgApplied}, 0)]
           ELSE /\ proc' = [proc EXCEPT ![p] = Exit(r, {MsgDiscarded}, 0)]
                /\ UNCHANGED <<constitutionFile, stateFile, appends>>
    /\ UNCHANGED <<targetDir, gitDir, specaiDir, dotSpecaiDir, configFile,
                   lockHistory>>

(* Faulty variant: the text is appended to the document as it is on disk   *)
(* at the time of the write.                                               *)
AnswerConfirm_AppendsToFileOnDisk(p, line) ==
    /\ proc[p].pc \in {"confirm", "confirmNotes"}
    /\ LET r == [proc[p] EXCEPT !.confirm.answered = TRUE,
                                !.confirm.line = line]
       IN  IF Confirmed(r.variant, line)
           THEN /\ constitutionFile' =
                       File(AppendedDocument(constitutionFile.content,
                                             r.text))
                /\ appends' = appends + 1
                /\ proc' = [proc EXCEPT ![p] =
                       Exit([r EXCEPT !.docWrites = @ + 1],
                            IF r.pc = "confirmNotes" THEN {MsgNotesAppended}
                            ELSE {MsgApplied}, 0)]
           ELSE /\ proc' = [proc EXCEPT ![p] = Exit(r, {MsgDiscarded}, 0)]
                /\ UNCHANGED <<constitutionFile, appends>>
    /\ UNCHANGED <<targetDir, gitDir, specaiDir, dotSpecaiDir, configFile,
                   stateFile, lockHistory>>

(* The operator answers the y/n prompt: the document is written, or the    *)
(* text is discarded.                                                      *)
AnswerConfirm(p, line) ==
    /\ proc[p].pc \in {"confirm", "confirmNotes"}
    /\ LET r == [proc[p] EXCEPT !.confirm.answered = TRUE,
                                !.confirm.line = line]
       IN  IF Confirmed(r.variant, line)
           THEN /\ constitutionFile' =
                       File(AppendedDocument(r.currentText, r.text))
                /\ appends' = appends + 1
                /\ proc' = [proc EXCEPT ![p] =
                       Exit([r EXCEPT !.docWrites = @ + 1],
                            IF r.pc = "confirmNotes" THEN {MsgNotesAppended}
                            ELSE {MsgApplied}, 0)]
           ELSE /\ proc' = [proc EXCEPT ![p] = Exit(r, {MsgDiscarded}, 0)]
                /\ UNCHANGED <<constitutionFile, appends>>
    /\ UNCHANGED <<targetDir, gitDir, specaiDir, dotSpecaiDir, configFile,
                   stateFile, lockHistory>>

(* Faulty variant: init has made specai before it prompts, so a closed     *)
(* input leaves that directory behind.                                     *)
InputClosed_LeavesDirectory(p) ==
    /\ proc[p].pc \in PromptPcs
    /\ proc' = [proc EXCEPT ![p] =
            [Exit(@, {}, 0) EXCEPT !.inputClosed = TRUE]]
    /\ specaiDir' = (specaiDir \/ proc[p].cmd = "init")
    /\ UNCHANGED <<targetDir, gitDir, dotSpecaiDir, configFile, stateFile,
                   constitutionFile, appends, lockHistory>>

(* The input stream ends while the process waits on a prompt: the          *)
(* readline callback never runs, the event loop empties and the process    *)
(* exits with 0, printing nothing.                                         *)
InputClosed(p) ==
    /\ proc[p].pc \in PromptPcs
    /\ proc' = [proc EXCEPT ![p] =
            [Exit(@, {}, 0) EXCEPT !.inputClosed = TRUE]]
    /\ UNCHANGED <<files, appends, lockHistory>>

(* The process is terminated while it waits on the generation call or on   *)
(* a prompt.                                                               *)
Terminated(p) ==
    /\ proc[p].pc \in GenPcs \cup PromptPcs
    /\ proc' = [proc EXCEPT ![p] = [Exit(@, {}, 1) EXCEPT !.killed = TRUE]]
    /\ UNCHANGED <<files, appends, lockHistory>>

-----------------------------------------------------------------------------
(* main: the other branches of the command switch *)

(* The command words main answers with the usage text alone: no word or   *)
(* the empty word (!command), help and --help.                             *)
HelpCommands == {"", "help", "--help"}

(* Command words that reach the default branch of the switch. *)
UnknownCommands == {"bogus", "Init"}

(* No command, help or --help: header and usage, then return. *)
Help(p, command) ==
    /\ Idle(p)
    /\ proc' = [proc EXCEPT ![p] =
            Exit(NewProc(p, command, "-", FALSE), {MsgUsage}, 0)]
    /\ UNCHANGED <<files, appends, lockHistory>>

(* approve or unlock with a target other than constitution: the message is *)
(* printed and main returns.                                               *)
UnknownTarget(p, command) ==
    /\ Idle(p)
    /\ proc' = [proc EXCEPT ![p] =
            Exit(NewProc(p, command \o " other", "-", FALSE),
                 IF command = "approve" THEN {MsgUnknownApprove}
                 ELSE {MsgUnknownUnlock}, 0)]
    /\ UNCHANGED <<files, appends, lockHistory>>

(* Faulty variant: the default branch returns like the help branch. *)
UnknownCommand_ReturnsZero(p, command) ==
    /\ Idle(p)
    /\ proc' = [proc EXCEPT ![p] =
            Exit(NewProc(p, command, "-", FALSE),
                 {MsgUnknownCommand, MsgUsage}, 0)]
    /\ UNCHANGED <<files, appends, lockHistory>>

(* The default branch of the switch. *)
UnknownCommand(p, command) ==
    /\ Idle(p)
    /\ proc' = [proc EXCEPT ![p] =
            Exit(NewProc(p, command, "-", FALSE),
                 {MsgUnknownCommand, MsgUsage}, 1)]
    /\ UNCHANGED <<files, appends, lockHistory>>

-----------------------------------------------------------------------------
(* The tool run one invocation at a time. *)

NoProc ==
    [cmd |-> "none", prevCmd |-> "other", variant |-> "-",
     force |-> FALSE, noGit |-> FALSE,
     pc |-> "done", currentText |-> <<>>, text |-> <<>>, name |-> <<>>,
     genCalls |-> 0, prompts |-> 0,
     docWrites |-> 0, stateWrites |-> 0, configWrites |-> 0,
     confirm |-> NoConfirm, choice |-> NoChoice,
     msgs |-> {}, exit |-> 0, killed |-> FALSE,
     genFailed |-> FALSE, inputClosed |-> FALSE,
     pre |-> [state |-> NoFile, doc |-> NoFile, config |-> NoFile,
              specaiDir |-> FALSE, dotSpecaiDir |-> FALSE],
     lockHistoryAtStart |-> [cmd |-> "none", initSince |-> FALSE]]

Init ==
    /\ targetDir = FALSE
    /\ gitDir = FALSE
    /\ specaiDir = FALSE
    /\ dotSpecaiDir = FALSE
    /\ configFile = NoFile
    /\ stateFile = NoFile
    /\ constitutionFile = NoFile
    /\ proc = [p \in Procs |-> NoProc]
    /\ appends = 0
    /\ lockHistory = [cmd |-> "none", initSince |-> FALSE]

Step(p) ==
    \/ \E hasPath, force, noGit \in BOOLEAN :
            InitStart(p, hasPath, force, noGit)
    \/ \E line \in ProjectLines : InitAnswerName(p, line)
    \/ \E line \in ProjectLines, gitOk \in BOOLEAN :
            InitAnswerDescription(p, line, gitOk)
    \/ Status(p)
    \/ ApproveConstitution(p)
    \/ UnlockConstitution(p)
    \/ \E variant \in {"menu", "simple"} : ConstitutionStart(p, variant)
    \/ \E response \in GenResponses : GenerationSucceeds(p, response)
    \/ GenerationFails(p)
    \/ \E line \in ChoiceLines : AnswerChoice(p, line)
    \/ \E line \in TextLines : AnswerDescribe(p, line)
    \/ \E line \in TextLines : AnswerNotes(p, line)
    \/ \E line \in ConfirmLines : AnswerConfirm(p, line)
    \/ InputClosed(p)
    \/ Terminated(p)
    \/ \E command \in HelpCommands : Help(p, command)
    \/ \E command \in {"approve", "unlock"} : UnknownTarget(p, command)
    \/ \E command \in UnknownCommands : UnknownCommand(p, command)

Next == Step(Main)

Spec == Init /\ [][Next]_vars

(* The generation service answers the pending request of p. *)
ServiceAnswers(p) ==
    \/ \E response \in GenResponses : GenerationSucceeds(p, response)
    \/ GenerationFails(p)

(* The operator answers the pending prompt of p, or closes the input. *)
OperatorAnswers(p) ==
    \/ \E line \in ProjectLines : InitAnswerName(p, line)
    \/ \E line \in ProjectLines, gitOk \in BOOLEAN :
            InitAnswerDescription(p, line, gitOk)
    \/ \E line \in ChoiceLines : AnswerChoice(p, line)
    \/ \E line \in TextLines : AnswerDescribe(p, line)
    \/ \E line \in TextLines : AnswerNotes(p, line)
    \/ \E line \in ConfirmLines : AnswerConfirm(p, line)
    \/ InputClosed(p)

(* The tool run one invocation at a time, with a service that answers      *)
(* every request and an operator who answers every prompt or closes the    *)
(* input.                                                                  *)
SpecFair ==
    /\ Init
    /\ [][Next]_vars
    /\ WF_vars(ServiceAnswers(Main))
    /\ WF_vars(OperatorAnswers(Main))

-----------------------------------------------------------------------------
(* The edit workflow applied to any document found on disk: the project    *)
(* is initialised and unlocked, and constitution.md holds any text of up   *)
(* to MaxInputDocLen characters (the operator edits the documents by hand  *)
(* between invocations).                                                   *)

DocChars == {"#", " ", "\n"}

InputDocs == UNION {[1..n -> DocChars] : n \in 0..MaxInputDocLen}

InitAnyDocument ==
    /\ targetDir = TRUE
    /\ gitDir = FALSE
    /\ specaiDir = TRUE
    /\ dotSpecaiDir = TRUE
    /\ configFile = File(StringifyConfig(InitialConfig(BaseName, BaseName)))
    /\ stateFile = File(StringifyState(InitialState))
    /\ constitutionFile \in {File(d) : d \in InputDocs}
    /\ proc = [p \in Procs |-> NoProc]
    /\ appends = 0
    /\ lockHistory = [cmd |-> "none", initSince |-> TRUE]

EditStep(p) ==
    \/ \E variant \in {"menu", "simple"} : ConstitutionStart(p, variant)
    \/ \E response \in GenResponses : GenerationSucceeds(p, response)
    \/ GenerationFails(p)
    \/ \E line \in ChoiceLines : AnswerChoice(p, line)
    \/ \E line \in TextLines : AnswerDescribe(p, line)
    \/ \E line \in TextLines : AnswerNotes(p, line)
    \/ \E line \in ConfirmLines : AnswerConfirm(p, line)
    \/ InputClosed(p)
    \/ Terminated(p)

NextEdit == EditStep(Main)

SpecAnyDocument == InitAnyDocument /\ [][NextEdit]_vars

-----------------------------------------------------------------------------
(* The tool run on any project directory it may find: each metadata        *)
(* directory exists or not (a directory made or removed by hand, an init   *)
(* cut short between its two mkdir calls), each file exists or not inside  *)
(* an existing directory, and the state record holds any of InputStates    *)
(* (records of later phases, edited by hand).                              *)

InputStates ==
    {InitialState,
     [phase |-> "spec",
      approved |-> [constitution |-> TRUE, spec |-> TRUE,
                    plan |-> FALSE, tasks |-> FALSE]],
     [phase |-> "plan",
      approved |-> [constitution |-> FALSE, spec |-> TRUE,
                    plan |-> TRUE, tasks |-> FALSE]]}

InitAnyProject ==
    /\ targetDir = TRUE
    /\ gitDir = FALSE
    /\ specaiDir \in BOOLEAN
    /\ dotSpecaiDir \in BOOLEAN
    /\ configFile \in
          IF dotSpecaiDir
          THEN {NoFile,
                File(StringifyConfig(InitialConfig(BaseName, BaseName)))}
          ELSE {NoFile}
    /\ stateFile \in
          IF specaiDir
          THEN {NoFile} \cup {File(StringifyState(s)) : s \in InputStates}
          ELSE {NoFile}
    /\ constitutionFile \in
          IF specaiDir THEN {NoFile, File(Scaffold)} ELSE {NoFile}
    /\ proc = [p \in Procs |-> NoProc]
    /\ appends = 0
    /\ lockHistory = [cmd |-> "none", initSince |-> FALSE]

SpecAnyProject == InitAnyProject /\ [][Next]_vars

-----------------------------------------------------------------------------
(* Two processes run the tool on one initialised project at the same time  *)
(* (two terminals): each step is a step of one of them, in any order.      *)
(* Nothing in the code serialises them: the files are read and written     *)
(* with plain readFileSync / writeFileSync.                                *)

(* Completions, menu answers, free text and y/n answers of the two         *)
(* operators.                                                              *)
RaceResponses == {<<"r">>}

RaceChoiceLines == {<<"1">>, <<"3">>}

RaceTextLines == {<<"n">>}

RaceConfirmLines == {<<"y">>, <<"n">>}

InitConcurrent ==
    /\ targetDir = TRUE
    /\ gitDir = FALSE
    /\ specaiDir = TRUE
    /\ dotSpecaiDir = TRUE
    /\ configFile = File(StringifyConfig(InitialConfig(BaseName, BaseName)))
    /\ stateFile = File(StringifyState(InitialState))
    /\ constitutionFile = File(Scaffold)
    /\ proc = [p \in Procs |-> NoProc]
    /\ appends = 0
    /\ lockHistory = [cmd |-> "none", initSince |-> TRUE]

ConcurrentStep(p) ==
    \/ \E variant \in {"menu", "simple"} : ConstitutionStart(p, variant)
    \/ \E response \in RaceResponses : GenerationSucceeds(p, response)
    \/ GenerationFails(p)
    \/ \E line \in RaceChoiceLines : AnswerChoice(p, line)
    \/ \E line \in RaceTextLines : AnswerDescribe(p, line)
    \/ \E line \in RaceTextLines : AnswerNotes(p, line)
    \/ \E line \in RaceConfirmLines : AnswerConfirm(p, line)
    \/ ApproveConstitution(p)
    \/ UnlockConstitution(p)

NextConcurrent == \E p \in Procs : ConcurrentStep(p)

SpecConcurrent == InitConcurrent /\ [][NextConcurrent]_vars

-----------------------------------------------------------------------------
(* Properties. *)

(* approved.constitution as stored in specai/state.json. *)
FlagOnDisk == stateFile.exists /\ loadState.approved.constitution

(* approved.constitution as stored when the invocation r started. *)
FlagAtStart(r) ==
    r.pre.state.exists /\ ParseState(r.pre.state.content).approved.constitution

(* The invocation r was refused at the lock gate. *)
RefusedAsLocked(r) ==
    /\ r.pc = "done"
    /\ r.exit = 1
    /\ ~r.killed
    /\ MsgLocked \in r.msgs
    /\ MsgUnlockHint \in r.msgs

(* The step completes an init --force. *)
ForcedInitStep ==
    \E p \in Procs :
        /\ proc[p].cmd = "init"
        /\ proc[p].force
        /\ proc[p].pc = "askDescription"
        /\ proc'[p].pc = "done"

(* The step is a successful unlock constitution. *)
UnlockStep ==
    \E p \in Procs :
        /\ proc[p].pc = "done"
        /\ proc'[p].cmd = "unlock constitution"
        /\ proc'[p].stateWrites = 1

(* C1: an edit invocation that starts while approved.constitution is true  *)
(* ends with the locked message and the hint to unlock, exit code 1, no    *)
(* generation call, no prompt, and neither the document nor the state      *)
(* record written.                                                         *)
C1_LockedEditRefused ==
    \A p \in Procs :
        (proc[p].cmd = "constitution" /\ FlagAtStart(proc[p])) =>
            /\ RefusedAsLocked(proc[p])
            /\ proc[p].genCalls = 0
            /\ proc[p].prompts = 0
            /\ proc[p].docWrites = 0
            /\ proc[p].stateWrites = 0
            /\ constitutionFile = proc[p].pre.doc
            /\ stateFile = proc[p].pre.state

C1_Witness ==
    /\ proc[Main].cmd = "constitution"
    /\ FlagAtStart(proc[Main])
    /\ MsgLocked \in proc[Main].msgs
    /\ proc[Main].pre.doc.content # Scaffold

(* C2 as stated: while approved.constitution is true, no step of any       *)
(* command changes the constitution document.                              *)
C2_LockedDocumentNeverChanges ==
    [][FlagOnDisk => constitutionFile' = constitutionFile]_vars

(* C2 as amended: while approved.constitution is true, the only step that  *)
(* changes the constitution document is the completion of init --force.    *)
C2_LockedDocumentChangesOnlyByForcedInit ==
    [][(FlagOnDisk /\ constitutionFile' # constitutionFile)
          => ForcedInitStep]_vars

C2_Witness ==
    /\ proc[Main].cmd = "init"
    /\ proc[Main].pc = "done"
    /\ proc[Main].force
    /\ FlagAtStart(proc[Main])
    /\ proc[Main].pre.doc.content # Scaffold
    /\ constitutionFile.content = Scaffold

(* C3 as stated: a step that takes approved.constitution from true to      *)
(* false is an unlock constitution.                                        *)
C3_FlagClearedOnlyByUnlock ==
    [][(FlagOnDisk /\ ~FlagOnDisk') => UnlockStep]_vars

(* C3 as amended: a step that takes approved.constitution from true to     *)
(* false is an unlock constitution or the completion of init --force.      *)
C3_FlagClearedOnlyByUnlockOrForcedInit ==
    [][(FlagOnDisk /\ ~FlagOnDisk') => (UnlockStep \/ ForcedInitStep)]_vars

C3_Witness ==
    /\ proc[Main].cmd = "init"
    /\ proc[Main].pc = "done"
    /\ proc[Main].exit = 0
    /\ FlagAtStart(proc[Main])
    /\ ~FlagOnDisk

(* The operator typed y or Y at the y/n prompt of invocation r. *)
AnsweredYes(r) ==
    r.confirm.answered /\ r.confirm.line \in {<<"y">>, <<"Y">>}

(* C4 as stated: an edit attempt whose last preceding approve/unlock is an *)
(* approve fails with the locked condition.                                *)
C4_LockedUntilUnlock ==
    \A p \in Procs :
        (proc[p].cmd = "constitution"
            /\ proc[p].lockHistoryAtStart.cmd = "approve") =>
            RefusedAsLocked(proc[p])

(* C4 as amended: an edit attempt fails with the locked condition when the *)
(* last command that wrote the state record is an approve; when it is an   *)
(* unlock or an init, the attempt passes the lock gate (the generation     *)
(* service is called), and if the operator then answers y the document is  *)
(* the one read at the start with the proposal appended.                   *)
C4_LockedUntilUnlockOrInit ==
    \A p \in Procs :
        LET r == proc[p]
            h == r.lockHistoryAtStart
        IN  r.cmd = "constitution" =>
              /\ (h.cmd = "approve" /\ ~h.initSince) => RefusedAsLocked(r)
              /\ (h.cmd = "unlock" \/ h.initSince) =>
                    /\ MsgLocked \notin r.msgs
                    /\ r.genCalls >= 1
                    /\ (r.pc = "done" /\ AnsweredYes(r)) =>
                          /\ r.docWrites = 1
                          /\ MsgDiscarded \notin r.msgs
                          /\ constitutionFile.content =
                                Trim(r.pre.doc.content) \o <<"\n", "\n">>
                                    \o r.text \o <<"\n">>

C4_Witness ==
    /\ proc[Main].cmd = "constitution"
    /\ proc[Main].lockHistoryAtStart = [cmd |-> "unlock", initSince |-> FALSE]
    /\ proc[Main].pc = "done"
    /\ AnsweredYes(proc[Main])
    /\ proc[Main].docWrites = 1

(* The operator's answer at the y/n prompt of invocation r, with the white *)
(* space around it removed, is y or Y.                                     *)
AnsweredYesTrimmed(r) ==
    r.confirm.answered /\ Trim(r.confirm.line) \in {<<"y">>, <<"Y">>}

(* C5 as stated: unless the operator's answer at the y/n prompt is y or Y, *)
(* an edit invocation leaves the document as it was at its start; this     *)
(* covers n, an empty line and a process terminated before any answer.     *)
C5_NoWriteUnlessAnswerIsY ==
    \A p \in Procs :
        (proc[p].cmd = "constitution" /\ ~AnsweredYes(proc[p])) =>
            /\ proc[p].docWrites = 0
            /\ constitutionFile = proc[p].pre.doc

(* C5 as amended: unless the operator's answer at the y/n prompt, with the *)
(* white space around it removed, is y or Y, an edit invocation leaves the *)
(* document as it was at its start; this covers n, an empty line and a     *)
(* process terminated before any answer.                                   *)
C5_NoWriteUnlessTrimmedAnswerIsY ==
    \A p \in Procs :
        (proc[p].cmd = "constitution" /\ ~AnsweredYesTrimmed(proc[p])) =>
            /\ proc[p].docWrites = 0
            /\ constitutionFile = proc[p].pre.doc

C5_Witness ==
    /\ proc[Main].cmd = "constitution"
    /\ proc[Main].killed
    /\ proc[Main].confirm.asked
    /\ ~proc[Main].confirm.answered
    /\ proc[Main].text # <<>>
    /\ constitutionFile = proc[Main].pre.doc

(* An edit invocation has written the document on confirmation. *)
ConfirmedWrite(r) ==
    r.cmd = "constitution" /\ r.pc = "done" /\ r.docWrites = 1

(* C6: after a confirmed write the document is the document read at the    *)
(* start with only its trailing white space removed, then two newlines,    *)
(* the accepted text and one newline.                                      *)
C6_AppendKeepsPriorContent ==
    \A p \in Procs :
        ConfirmedWrite(proc[p]) =>
            constitutionFile.content =
                TrimEnd(proc[p].pre.doc.content) \o <<"\n", "\n">>
                    \o proc[p].text \o <<"\n">>

(* C7: after a confirmed write the document is longer than it was at the   *)
(* start of the invocation.                                                *)
C7_AppendGrowsDocument ==
    \A p \in Procs :
        ConfirmedWrite(proc[p]) =>
            Len(constitutionFile.content) > Len(proc[p].pre.doc.content)

(* C8: an edit invocation leaves the state record (phase and every         *)
(* approved flag) as it was at its start, on every path; the document      *)
(* differs from the one at its start only after the operator's y.          *)
C8_EditLeavesStateRecord ==
    \A p \in Procs :
        proc[p].cmd = "constitution" =>
            /\ stateFile = proc[p].pre.state
            /\ proc[p].stateWrites = 0
            /\ constitutionFile # proc[p].pre.doc =>
                  /\ proc[p].pc = "done"
                  /\ proc[p].confirm.answered
                  /\ ToLowerCase(Trim(proc[p].confirm.line)) = <<"y">>

C8_Witness ==
    /\ proc[Main].cmd = "constitution"
    /\ proc[Main].pc = "done"
    /\ constitutionFile # proc[Main].pre.doc
    /\ stateFile.exists
    /\ stateFile = proc[Main].pre.state

(* C9: an approve constitution run right after an approve constitution     *)
(* leaves state record, document and config as the first left them, and    *)
(* likewise for unlock constitution.                                       *)
C9_ApproveUnlockIdempotent ==
    \A p \in Procs :
        (/\ proc[p].pc = "done"
         /\ proc[p].cmd \in {"approve constitution", "unlock constitution"}
         /\ proc[p].prevCmd = proc[p].cmd) =>
            /\ stateFile = proc[p].pre.state
            /\ constitutionFile = proc[p].pre.doc
            /\ configFile = proc[p].pre.config

C9_Witness ==
    /\ proc[Main].cmd = "approve constitution"
    /\ proc[Main].prevCmd = "approve constitution"
    /\ proc[Main].exit = 0
    /\ proc[Main].stateWrites = 1
    /\ FlagOnDisk

(* C10: when the state record exists, approve constitution ends with exit  *)
(* code 0 and approved.constitution true, and unlock constitution ends     *)
(* with exit code 0 and approved.constitution false, whatever the flag was *)
(* before.                                                                 *)
C10_ApproveUnlockSucceed ==
    \A p \in Procs :
        LET r == proc[p]
        IN  r.pre.state.exists =>
              /\ r.cmd = "approve constitution" =>
                    /\ r.pc = "done"
                    /\ r.exit = 0
                    /\ MsgApproved \in r.msgs
                    /\ FlagOnDisk
              /\ r.cmd = "unlock constitution" =>
                    /\ r.pc = "done"
                    /\ r.exit = 0
                    /\ MsgUnlocked \in r.msgs
                    /\ stateFile.exists
                    /\ ~FlagOnDisk

C10_Witness ==
    /\ proc[Main].cmd = "approve constitution"
    /\ FlagAtStart(proc[Main])
    /\ proc[Main].exit = 0
    /\ MsgApproved \in proc[Main].msgs
    /\ FlagOnDisk

(* Directories and files are as the invocation r found them. *)
NothingChanged(r) ==
    /\ stateFile = r.pre.state
    /\ constitutionFile = r.pre.doc
    /\ configFile = r.pre.config
    /\ specaiDir = r.pre.specaiDir
    /\ dotSpecaiDir = r.pre.dotSpecaiDir

(* The invocation r called no write of a file. *)
NoWrites(r) == r.docWrites = 0 /\ r.stateWrites = 0 /\ r.configWrites = 0

(* C11: init without --force, given a target in which specai or .specai    *)
(* exists, ends with the already-initialized message and exit code 1       *)
(* without having prompted or written: directories, config, state record   *)
(* and document are as before.                                             *)
C11_InitRefusedWhenInitialized ==
    \A p \in Procs :
        LET r == proc[p]
        IN  (/\ r.cmd = "init"
             /\ ~r.force
             /\ MsgNoTarget \notin r.msgs
             /\ (r.pre.specaiDir \/ r.pre.dotSpecaiDir)) =>
                /\ r.pc = "done"
                /\ r.exit = 1
                /\ MsgAlreadyInitialized \in r.msgs
                /\ r.prompts = 0
                /\ NoWrites(r)
                /\ NothingChanged(r)

C11_Witness ==
    /\ proc[Main].cmd = "init"
    /\ ~proc[Main].force
    /\ proc[Main].pre.specaiDir
    /\ ~proc[Main].pre.dotSpecaiDir
    /\ FlagAtStart(proc[Main])
    /\ MsgAlreadyInitialized \in proc[Main].msgs

(* C12: after an init that reports success, the state record has phase     *)
(* "constitution" and every approved flag false, the document is the       *)
(* scaffold and the config names the default planner and coder models,     *)
(* each of the three files written by this invocation.                     *)
C12_InitWritesDefaults ==
    \A p \in Procs :
        LET r == proc[p]
        IN  (r.cmd = "init" /\ r.pc = "done" /\ MsgInitialized \in r.msgs) =>
                /\ r.exit = 0
                /\ stateFile.exists
                /\ loadState =
                     [phase |-> "constitution",
                      approved |-> [constitution |-> FALSE, spec |-> FALSE,
                                    plan |-> FALSE, tasks |-> FALSE]]
                /\ constitutionFile = File(Scaffold)
                /\ configFile.exists
                /\ loadConfig.models =
                     [planner |-> "qwen2.5:7b", coder |-> "deepseek-coder:6.7b"]
                /\ r.stateWrites = 1
                /\ r.docWrites = 1
                /\ r.configWrites = 1

C12_Witness ==
    /\ proc[Main].cmd = "init"
    /\ proc[Main].pc = "done"
    /\ proc[Main].force
    /\ MsgInitialized \in proc[Main].msgs
    /\ FlagAtStart(proc[Main])
    /\ proc[Main].pre.doc.exists
    /\ proc[Main].pre.doc.content # Scaffold
    /\ proc[Main].pre.config.exists

(* C13: status reports initialized exactly when specai and .specai both    *)
(* exist, reports not initialized otherwise, and changes nothing.          *)
C13_StatusIffBothDirectories ==
    \A p \in Procs :
        LET r == proc[p]
        IN  r.cmd = "status" =>
                /\ r.pc = "done"
                /\ r.exit = 0
                /\ MsgStatusInitialized \in r.msgs
                      <=> (r.pre.specaiDir /\ r.pre.dotSpecaiDir)
                /\ MsgStatusNotInitialized \in r.msgs
                      <=> ~(r.pre.specaiDir /\ r.pre.dotSpecaiDir)
                /\ NoWrites(r)
                /\ NothingChanged(r)

C13_Witness ==
    /\ proc[Main].cmd = "status"
    /\ proc[Main].pre.specaiDir
    /\ ~proc[Main].pre.dotSpecaiDir
    /\ MsgStatusNotInitialized \in proc[Main].msgs

(* C14: when specai/state.json is absent, constitution, approve            *)
(* constitution and unlock constitution end with the not-found message and *)
(* exit code 1, and neither create nor change a file.                      *)
C14_NotFoundWithoutStateRecord ==
    \A p \in Procs :
        LET r == proc[p]
        IN  (/\ r.cmd \in {"constitution", "approve constitution",
                           "unlock constitution"}
             /\ ~r.pre.state.exists) =>
                /\ r.pc = "done"
                /\ r.exit = 1
                /\ MsgNotFound \in r.msgs
                /\ r.genCalls = 0
                /\ r.prompts = 0
                /\ NoWrites(r)
                /\ NothingChanged(r)
                /\ ~stateFile.exists

C14_Witness ==
    /\ proc[Main].cmd = "unlock constitution"
    /\ proc[Main].pre.specaiDir
    /\ proc[Main].pre.doc.exists
    /\ ~proc[Main].pre.state.exists
    /\ MsgNotFound \in proc[Main].msgs

(* C15: when a call of the generation service fails, the invocation is     *)
(* over with exit code 1: no further call is made (one call when the       *)
(* first call failed, two when the call after the menu failed), no y/n     *)
(* prompt has been shown, and the document and the state record are as     *)
(* the invocation found them.                                              *)
C15_GenerationFailureIsFatal ==
    \A p \in Procs :
        LET r == proc[p]
        IN  r.genFailed =>
                /\ r.pc = "done"
                /\ r.exit = 1
                /\ r.genCalls = (IF r.choice.answered THEN 2 ELSE 1)
                /\ ~r.confirm.asked
                /\ r.docWrites = 0
                /\ r.stateWrites = 0
                /\ constitutionFile = r.pre.doc
                /\ stateFile = r.pre.state

C15_Witness ==
    /\ proc[Main].genFailed
    /\ proc[Main].variant = "menu"
    /\ proc[Main].choice.answered
    /\ choose(proc[Main].choice.line) = 0
    /\ proc[Main].genCalls = 2

(* C16: when the input stream closes while an invocation waits on a        *)
(* prompt, the invocation ends reported as a failure, with a non-zero exit *)
(* code, and the document and the state record are unchanged.              *)
C16_InputClosedReported ==
    \A p \in Procs :
        LET r == proc[p]
        IN  r.inputClosed =>
                /\ r.pc = "done"
                /\ r.exit # 0
                /\ r.msgs # {}
                /\ constitutionFile = r.pre.doc
                /\ stateFile = r.pre.state

(* The command word of the invocation r: args[0]. *)
CommandWord(r) ==
    CASE r.cmd \in {"approve constitution", "approve other"} -> "approve"
      [] r.cmd \in {"unlock constitution", "unlock other"} -> "unlock"
      [] OTHER -> r.cmd

(* The invocation r printed the usage text, failed and changed no file. *)
UsageAndFailure(r) ==
    /\ r.pc = "done"
    /\ MsgUsage \in r.msgs
    /\ r.exit # 0
    /\ NoWrites(r)
    /\ NothingChanged(r)

(* C17 as stated: an invocation whose command word is none of init,        *)
(* status, constitution, approve, unlock, help prints the usage text,      *)
(* exits non-zero and changes no file.                                     *)
C17_UnlistedCommandFails ==
    \A p \in Procs :
        LET r == proc[p]
        IN  (/\ r.cmd # "none"
             /\ CommandWord(r) \notin {"init", "status", "constitution",
                                       "approve", "unlock", "help"}) =>
                UsageAndFailure(r)

(* C17: an invocation whose command word is not empty and none of init,    *)
(* status, constitution, approve, unlock, help, --help prints the unknown  *)
(* command line and the usage text, exits with 1 and changes no file.      *)
C17_UnknownCommandFails ==
    \A p \in Procs :
        LET r == proc[p]
        IN  (/\ r.cmd # "none"
             /\ CommandWord(r) \notin {"init", "status", "constitution",
                                       "approve", "unlock", "help",
                                       "--help", ""}) =>
                /\ UsageAndFailure(r)
                /\ r.exit = 1
                /\ MsgUnknownCommand \in r.msgs

C17_Witness ==
    /\ proc[Main].cmd = "Init"
    /\ proc[Main].pre.state.exists
    /\ proc[Main].pre.doc.exists
    /\ proc[Main].exit = 1

(* C18: approve constitution and unlock constitution, run on an existing   *)
(* state record, write the record once, with approved.constitution set to  *)
(* true by approve and to false by unlock and with phase and the flags of  *)
(* spec, plan and tasks as loaded; document, config and directories are    *)
(* not touched.                                                            *)
C18_ApproveUnlockChangeOnlyTheFlag ==
    \A p \in Procs :
        LET r == proc[p]
            old == ParseState(r.pre.state.content)
        IN  (/\ r.cmd \in {"approve constitution", "unlock constitution"}
             /\ r.pre.state.exists) =>
                /\ r.pc = "done"
                /\ stateFile.exists
                /\ loadState.approved.constitution =
                       (r.cmd = "approve constitution")
                /\ loadState.phase = old.phase
                /\ loadState.approved.spec = old.approved.spec
                /\ loadState.approved.plan = old.approved.plan
                /\ loadState.approved.tasks = old.approved.tasks
                /\ r.stateWrites = 1
                /\ r.docWrites = 0
                /\ r.configWrites = 0
                /\ constitutionFile = r.pre.doc
                /\ configFile = r.pre.config
                /\ specaiDir = r.pre.specaiDir
                /\ dotSpecaiDir = r.pre.dotSpecaiDir

C18_Witness ==
    /\ proc[Main].cmd = "approve constitution"
    /\ proc[Main].pre.state.exists
    /\ ~FlagAtStart(proc[Main])
    /\ stateFile.exists
    /\ loadState.phase = "plan"
    /\ loadState.approved.plan
    /\ loadState.approved.constitution

(* Every write of the menu draft follows a y/n prompt answered y or Y. *)
MenuWritesAreConfirmed ==
    \A p \in Procs :
        LET r == proc[p]
        IN  (r.cmd = "constitution" /\ r.variant = "menu"
                /\ r.docWrites > 0) =>
                /\ r.confirm.asked
                /\ AnsweredYesTrimmed(r)
                /\ r.docWrites = 1

(* The invocation r wrote nothing: document and state record are as found. *)
WroteNothing(r) ==
    /\ r.docWrites = 0
    /\ r.stateWrites = 0
    /\ constitutionFile = r.pre.doc
    /\ stateFile = r.pre.state

(* C19 as stated: in the menu draft every write follows the confirmation,  *)
(* and an invocation whose menu answer is anything but the entry 1 or the  *)
(* entry 3 writes nothing.                                                 *)
C19_OnlyEntriesOneAndThreeWrite ==
    /\ MenuWritesAreConfirmed
    /\ \A p \in Procs :
        LET r == proc[p]
        IN  (/\ r.cmd = "constitution"
             /\ r.variant = "menu"
             /\ r.choice.answered
             /\ Trim(r.choice.line) \notin {<<"1">>, <<"3">>}) =>
                WroteNothing(r)

(* C19: in the menu draft every write follows the confirmation, and an     *)
(* invocation whose menu answer does not start, after white space, with    *)
(* an integer equal to 1 or 3 writes nothing.                              *)
C19_OnlyLeadingOneAndThreeWrite ==
    /\ MenuWritesAreConfirmed
    /\ \A p \in Procs :
        LET r == proc[p]
            idx == ParseInt(r.choice.line)
        IN  (/\ r.cmd = "constitution"
             /\ r.variant = "menu"
             /\ r.choice.answered
             /\ (idx.nan \/ idx.value \notin {1, 3})) =>
                WroteNothing(r)

C19_Witness ==
    /\ proc[Main].cmd = "constitution"
    /\ proc[Main].variant = "menu"
    /\ proc[Main].choice.line = <<"1", "x">>
    /\ proc[Main].confirm.asked
    /\ AnsweredYesTrimmed(proc[Main])
    /\ proc[Main].docWrites = 1

(* C20: an invocation in which the operator chooses to append notes sends  *)
(* no request to the generation service.                                   *)
C20_NotesWithoutGeneration ==
    \A p \in Procs :
        LET r == proc[p]
        IN  (/\ r.cmd = "constitution"
             /\ r.choice.answered
             /\ choose(r.choice.line) = 2) =>
                r.genCalls = 0

(* The step is the write of the document by the edit invocation of p. *)
EditWriteStep(p) ==
    /\ proc[p].pc \in {"confirm", "confirmNotes"}
    /\ proc'[p].docWrites = proc[p].docWrites + 1

(* C21: with two processes interleaved, every confirmed write sets the     *)
(* whole document to the text the writer read at its start, trimmed, plus  *)
(* the writer's own text, whatever the document on disk has become in the  *)
(* meantime: of two edits that read the same document, the later write     *)
(* drops the earlier append.                                               *)
C21_WriteFromTextReadAtStart ==
    [][\A p \in Procs :
          EditWriteStep(p) =>
              constitutionFile' =
                  File(AppendedDocument(proc[p].pre.doc.content,
                                        proc[p].text))]_vars

C21_Witness ==
    /\ proc["p1"].cmd = "constitution"
    /\ proc["p2"].cmd = "constitution"
    /\ proc["p1"].docWrites = 1
    /\ proc["p2"].docWrites = 1
    /\ proc["p1"].pre.doc = proc["p2"].pre.doc
    /\ proc["p1"].text = <<"r">>
    /\ proc["p2"].text = <<"n">>
    /\ constitutionFile =
          File(AppendedDocument(proc["p2"].currentText, <<"n">>))
    /\ constitutionFile #
          File(AppendedDocument(proc["p1"].currentText, <<"r">>))

(* C22: with two processes interleaved, no edit invocation writes the      *)
(* document in a step that starts with approved.constitution stored as     *)
(* true.                                                                   *)
C22_NoEditWriteWhileLocked ==
    [][\A p \in Procs : EditWriteStep(p) => ~FlagOnDisk]_vars

(* C23: with a service that answers every request and an operator who      *)
(* answers every prompt or closes the input, every invocation that is      *)
(* under way ends; and an invocation never sends more than two generation  *)
(* requests (the summary and the one of the chosen entry) nor shows more   *)
(* than three prompts (menu, text, y/n; two for init).                     *)
C23_EveryInvocationTerminates ==
    /\ \A p \in Procs : (proc[p].pc # "done") ~> (proc[p].pc = "done")
    /\ [](\A p \in Procs : proc[p].genCalls <= 2 /\ proc[p].prompts <= 3)

C23_Witness ==
    /\ proc[Main].cmd = "constitution"
    /\ proc[Main].pc = "done"
    /\ proc[Main].genCalls = 2
    /\ proc[Main].prompts = 3
    /\ proc[Main].docWrites = 1

(* C24: in every state reached by invocations run one at a time from a     *)
(* directory without a project, config.json, state.json and                *)
(* constitution.md all exist or none does, and specai and .specai both     *)
(* exist or neither does.                                                  *)
C24_AllOrNothing ==
    /\ configFile.exists <=> stateFile.exists
    /\ stateFile.exists <=> constitutionFile.exists
    /\ specaiDir <=> dotSpecaiDir
    /\ stateFile.exists => specaiDir

C24_Witness ==
    /\ proc[Main].cmd = "init"
    /\ proc[Main].pc = "done"
    /\ proc[Main].inputClosed
    /\ MsgCreatedFolder \in proc[Main].msgs
    /\ targetDir
    /\ ~specaiDir
    /\ ~stateFile.exists

(* C25: every state record found after a successful init has phase         *)
(* "constitution" and the approved flags of spec, plan and tasks false.    *)
C25_PhaseNeverAdvances ==
    stateFile.exists =>
        /\ loadState.phase = "constitution"
        /\ ~loadState.approved.spec
        /\ ~loadState.approved.plan
        /\ ~loadState.approved.tasks

C25_Witness ==
    /\ proc[Main].cmd = "approve constitution"
    /\ proc[Main].prevCmd = "unlock constitution"
    /\ proc[Main].stateWrites = 1
    /\ FlagOnDisk
    /\ constitutionFile.content # Scaffold

(* C26: approve or unlock with a target other than constitution, or with   *)
(* none, is reported, ends with a non-zero exit code and leaves the state  *)
(* record and the document unchanged.                                      *)
C26_UnknownTargetFails ==
    \A p \in Procs :
        LET r == proc[p]
        IN  r.cmd \in {"approve other", "unlock other"} =>
                /\ r.pc = "done"
                /\ r.msgs # {}
                /\ r.exit # 0
                /\ stateFile = r.pre.state
                /\ constitutionFile = r.pre.doc

====
